---- MODULE Spec2Model ----
(***************************************************************************)
(* A model of the spritesheet cutter: frame-boundary detection, the frame  *)
(* assembler, the fallback segmenter, the background stripper, and the run *)
(* of process_directory over folders, images and frames.  Two versions of  *)
(* the program are in the repository: src/main.rs ("strict": thresholds    *)
(* 0.8 / 50 / 0.3 / 0.05, no fallback, no copy of an image without frames) *)
(* and src/src/main.rs ("relaxed": 0.6 / 30 / 0.2 / 0.02, with the         *)
(* fallback segmenter and the copy).                                       *)
(*                                                                         *)
(* A pixel is <<r, g, b, a>>, an image is [width, height, px] with px a    *)
(* function of <<x, y>>.  The f32 comparisons "n as f32 / d as f32 > q"    *)
(* are modelled by Exceeds on the exact fraction: for the denominators     *)
(* that occur (below 2^20) the rounded quotient exceeds the rounded        *)
(* literal exactly when the exact quotient exceeds the decimal.            *)
(***************************************************************************)
EXTENDS Integers, Sequences, FiniteSets, TLC

VARIABLES
    pixel, background, verdict,                 \* is_background_pixel's call
    img, variant, config, pc,                   \* one image going through detection
    vertical_boundaries, horizontal_boundaries, \* detect_sprite_frames' locals
    primary, fb_boundaries, fb_axis, frames,    \* grid result, fallback lists, result
    cropped,                                    \* dimensions of extract_frame's crops
    stripped,                                   \* results of remove_background
    folders, folder_index,                      \* process_directory: the folders walked
    image_files, index, frame_index,            \* the image and the frame being processed
    written, results,                           \* files saved, process_spritesheet's returns
    outcome, total_processed                    \* process_directory's result and counter

vars == <<pixel, background, verdict, img, variant, config, pc,
          vertical_boundaries, horizontal_boundaries, primary, fb_boundaries,
          fb_axis, frames, cropped, stripped, folders, folder_index, image_files,
          index, frame_index, written, results, outcome, total_processed>>

pixelVars == <<pixel, background, verdict>>
imageVars == <<img, variant, config>>
detectVars == <<vertical_boundaries, horizontal_boundaries, primary,
                fb_boundaries, fb_axis, frames, cropped>>
runVars == <<folders, folder_index, image_files, index, frame_index, written,
             results, outcome, total_processed>>

----------------------------------------------------------------------------
(* Bounds of the model *)

MaxChan == 2        \* colour channels of the pixel specification range over 0..MaxChan and 255
MaxTol == 2         \* tolerances of the pixel specification range over 0..MaxTol and 255
MaxWidth == 5       \* widths of the enumerated images range over 0..MaxWidth
MaxHeight == 3      \* heights of the enumerated images range over 0..MaxHeight
MaxMarks == 2       \* pixels of an enumerated image that differ from its fill colour
MaxSpeckles == 24   \* opaque pixels of a speckled image range over 0..MaxSpeckles
MaxRow == 4         \* one-row images of the stripper are enumerated up to this width
MaxRuns == 2        \* executions of remove_background on the same image

----------------------------------------------------------------------------
(* Arithmetic helpers *)

Abs(n) == IF n < 0 THEN -n ELSE n

Min(a, b) == IF a <= b THEN a ELSE b

\* u32::saturating_sub
SaturatingSub(a, b) == IF a >= b THEN a - b ELSE 0

\* n as f32 / d as f32 > q[1]/q[2]:  0/0 is NaN (never greater), n/0 is +inf
Exceeds(n, d, q) ==
    IF d = 0 THEN n > 0 ELSE n * q[2] > q[1] * d

----------------------------------------------------------------------------
(* is_background_pixel *)

IsBackgroundPixelNoBlue(p, b, tol) ==
    /\ Abs(p[1] - b[1]) <= tol
    /\ Abs(p[2] - b[2]) <= tol

IsBackgroundPixelStrictLess(p, b, tol) ==
    /\ Abs(p[1] - b[1]) < tol
    /\ Abs(p[2] - b[2]) < tol
    /\ Abs(p[3] - b[3]) < tol

IsBackgroundPixel(p, b, tol) ==
    /\ Abs(p[1] - b[1]) <= tol
    /\ Abs(p[2] - b[2]) <= tol
    /\ Abs(p[3] - b[3]) <= tol

----------------------------------------------------------------------------
(* Thresholds of the two versions *)

DarkLuma == 10          \* "pixel[0] < 10": very dark / transparent
AlphaFloor == 10        \* "a > 10": not fully transparent
EmptyDistance == 15     \* fallback: luma within 15 of the most common colour
SampleStep == 4         \* detect_most_common_color samples every 4th pixel
SampleSize == 10        \* detect_background_color samples a 10 x 10 corner block

DarkFraction(v) == IF v = "strict" THEN <<4, 5>> ELSE <<3, 5>>
EdgeDelta(v) == IF v = "strict" THEN 50 ELSE 30
EdgeFraction(v) == IF v = "strict" THEN <<3, 10>> ELSE <<1, 5>>
ContentFraction(v) == IF v = "strict" THEN <<1, 20>> ELSE <<1, 50>>
EmptyFraction == <<17, 20>>

----------------------------------------------------------------------------
(* Pixel sampler *)

\* DynamicImage::to_luma8 on an RGBA pixel: Rec. 709 weights, alpha dropped
Luma(p) == (2126 * p[1] + 7152 * p[2] + 722 * p[3]) \div 10000

\* gray_img.get_pixel(x, y)[0]
GrayAt(im, x, y) == Luma(im.px[<<x, y>>])

\* the Rust range a..b as a sequence
RangeSeq(a, b) == IF b > a THEN [i \in 1..(b - a) |-> a + i - 1] ELSE <<>>

----------------------------------------------------------------------------
(* Vec::sort and Vec::dedup *)

\* Vec::sort: position i holds the value v with fewer than i elements below it
\* and at least i elements not above it
SortVec(s) ==
    [i \in 1..Len(s) |->
        CHOOSE v \in {s[j] : j \in 1..Len(s)} :
            /\ Cardinality({j \in 1..Len(s) : s[j] < v}) < i
            /\ Cardinality({j \in 1..Len(s) : s[j] <= v}) >= i]

DedupNone(s) == s

\* Vec::dedup: drops every element equal to the one before it
Dedup(s) ==
    LET kept == {i \in 1..Len(s) : i = 1 \/ s[i] # s[i - 1]}
    IN  [k \in 1..Cardinality(kept) |->
            s[CHOOSE i \in kept : Cardinality({j \in kept : j <= i}) = k]]

----------------------------------------------------------------------------
(* Boundary detector: find_vertical_boundaries / find_horizontal_boundaries *)

\* a scan loop that also visits the last coordinate: 1..extent
ScanRangeThroughLast(extent) == RangeSeq(1, extent)

\* the interior coordinates the scan loop visits: 1..extent.saturating_sub(1)
ScanRange(extent) == RangeSeq(1, SaturatingSub(extent, 1))

IsVerticalBoundaryEdgeOnly(im, v, x) ==
    LET h == im.height
        color_changes ==
            Cardinality({y \in 0..(SaturatingSub(h, 1) - 1) :
                            Abs(GrayAt(im, x, y) - GrayAt(im, x, y + 1)) > EdgeDelta(v)})
    IN  Exceeds(color_changes, h, EdgeFraction(v))

\* column x is a boundary: mostly dark, or else many luma jumps down the column
IsVerticalBoundary(im, v, x) ==
    LET h == im.height
        transparent_count == Cardinality({y \in 0..(h - 1) : GrayAt(im, x, y) < DarkLuma})
        color_changes ==
            Cardinality({y \in 0..(SaturatingSub(h, 1) - 1) :
                            Abs(GrayAt(im, x, y) - GrayAt(im, x, y + 1)) > EdgeDelta(v)})
    IN  IF Exceeds(transparent_count, h, DarkFraction(v))
        THEN TRUE
        ELSE Exceeds(color_changes, h, EdgeFraction(v))

IsHorizontalBoundary(im, v, y) ==
    LET w == im.width
        transparent_count == Cardinality({x \in 0..(w - 1) : GrayAt(im, x, y) < DarkLuma})
        color_changes ==
            Cardinality({x \in 0..(SaturatingSub(w, 1) - 1) :
                            Abs(GrayAt(im, x, y) - GrayAt(im, x + 1, y)) > EdgeDelta(v)})
    IN  IF Exceeds(transparent_count, w, DarkFraction(v))
        THEN TRUE
        ELSE Exceeds(color_changes, w, EdgeFraction(v))

FindVerticalBoundaries(im, v) ==
    LET Test(x) == IsVerticalBoundary(im, v, x)
        boundaries == <<0>> \o SelectSeq(ScanRange(im.width), Test) \o <<im.width>>
    IN  Dedup(SortVec(boundaries))

FindHorizontalBoundariesPastEdge(im, v) ==
    LET Test(y) == IsHorizontalBoundary(im, v, y)
        boundaries == <<0>> \o SelectSeq(ScanRange(im.height), Test) \o <<im.height + 1>>
    IN  Dedup(SortVec(boundaries))

FindHorizontalBoundaries(im, v) ==
    LET Test(y) == IsHorizontalBoundary(im, v, y)
        boundaries == <<0>> \o SelectSeq(ScanRange(im.height), Test) \o <<im.height>>
    IN  Dedup(SortVec(boundaries))

----------------------------------------------------------------------------
(* Frame assembler *)

FrameHasContentByLuma(im, v, x, y, width, height) ==
    LET non_transparent_pixels ==
            Cardinality({c \in (x..(x + width - 1)) \X (y..(y + height - 1)) :
                            /\ c[1] < im.width
                            /\ c[2] < im.height
                            /\ Luma(im.px[c]) > AlphaFloor})
    IN  Exceeds(non_transparent_pixels, width * height, ContentFraction(v))

FrameHasContentAnyPixel(im, v, x, y, width, height) ==
    LET non_transparent_pixels ==
            Cardinality({c \in (x..(x + width - 1)) \X (y..(y + height - 1)) :
                            /\ c[1] < im.width
                            /\ c[2] < im.height})
    IN  Exceeds(non_transparent_pixels, width * height, ContentFraction(v))

\* frame_has_content: pixels with alpha > 10 over width * height
FrameHasContent(im, v, x, y, width, height) ==
    LET non_transparent_pixels ==
            Cardinality({c \in (x..(x + width - 1)) \X (y..(y + height - 1)) :
                            /\ c[1] < im.width
                            /\ c[2] < im.height
                            /\ im.px[c][4] > AlphaFloor})
        total_pixels == width * height   \* u32; no image modelled here reaches 2^32
    IN  Exceeds(non_transparent_pixels, total_pixels, ContentFraction(v))

\* "Validate frame size" of the grid loop
SizeOk(cfg, n) == n >= cfg.min_sprite_size /\ n <= cfg.max_sprite_size

\* the grid loop with its two loops exchanged: the row bands outside
GridFramesRowMajor(im, v, cfg, vb, hb) ==
    LET nv == SaturatingSub(Len(vb), 1)
        nh == SaturatingSub(Len(hb), 1)
        Candidate(k) ==
            LET j == ((k - 1) \div nv) + 1
                i == ((k - 1) % nv) + 1
            IN  [x |-> vb[i], y |-> hb[j],
                 width |-> vb[i + 1] - vb[i], height |-> hb[j + 1] - hb[j]]
        Accept(f) ==
            /\ SizeOk(cfg, f.width)
            /\ SizeOk(cfg, f.height)
            /\ FrameHasContent(im, v, f.x, f.y, f.width, f.height)
    IN  SelectSeq([k \in 1..(nv * nh) |-> Candidate(k)], Accept)

\* the grid loop that pushes the band's right and bottom edge where the code
\* pushes its width and height
GridFramesAbsoluteSize(im, v, cfg, vb, hb) ==
    LET nv == SaturatingSub(Len(vb), 1)
        nh == SaturatingSub(Len(hb), 1)
        Candidate(k) ==
            LET i == ((k - 1) \div nh) + 1
                j == ((k - 1) % nh) + 1
            IN  [x |-> vb[i], y |-> hb[j],
                 width |-> vb[i + 1], height |-> hb[j + 1]]
        Accept(f) ==
            /\ SizeOk(cfg, f.width)
            /\ SizeOk(cfg, f.height)
            /\ FrameHasContent(im, v, f.x, f.y, f.width - f.x, f.height - f.y)
    IN  SelectSeq([k \in 1..(nv * nh) |-> Candidate(k)], Accept)

\* the grid loop of detect_sprite_frames: i over the column bands (outer loop),
\* j over the row bands (inner loop)
GridFrames(im, v, cfg, vb, hb) ==
    LET nv == SaturatingSub(Len(vb), 1)
        nh == SaturatingSub(Len(hb), 1)
        Candidate(k) ==
            LET i == ((k - 1) \div nh) + 1
                j == ((k - 1) % nh) + 1
            IN  [x |-> vb[i], y |-> hb[j],
                 width |-> vb[i + 1] - vb[i], height |-> hb[j + 1] - hb[j]]
        Accept(f) ==
            /\ SizeOk(cfg, f.width)
            /\ SizeOk(cfg, f.height)
            /\ FrameHasContent(im, v, f.x, f.y, f.width, f.height)
    IN  SelectSeq([k \in 1..(nv * nh) |-> Candidate(k)], Accept)

----------------------------------------------------------------------------
(* Fallback segmenter (relaxed version only) *)

\* detect_most_common_color: the lumas that max_by_key can return.  The counts
\* live in a HashMap, whose iteration order is seeded at random, so among lumas
\* that tie for the largest count any one may be returned.
MostCommonColors(im) ==
    LET samples == {c \in (0..(im.width - 1)) \X (0..(im.height - 1)) :
                        c[1] % SampleStep = 0 /\ c[2] % SampleStep = 0}
        Count(l) == Cardinality({c \in samples : Luma(im.px[c]) = l})
        lumas == {Luma(im.px[c]) : c \in samples}
    IN  IF samples = {} THEN {0}
        ELSE {l \in lumas : \A m \in lumas : Count(m) <= Count(l)}

\* "Remove boundaries that are too close together"
RECURSIVE FilterClose(_, _, _, _)
FilterClose(bs, last_boundary, cfg, extent) ==
    IF bs = <<>> THEN <<>>
    ELSE IF Head(bs) - last_boundary >= cfg.min_sprite_size \/ Head(bs) = extent
         THEN <<Head(bs)>> \o FilterClose(Tail(bs), Head(bs), cfg, extent)
         ELSE FilterClose(Tail(bs), last_boundary, cfg, extent)

FindEmptySpaceBoundariesHorizontal(im, cfg, background_color) ==
    LET h == im.height
        Test(x) ==
            Exceeds(Cardinality({y \in 0..(h - 1) :
                        Abs(GrayAt(im, x, y) - background_color) <= EmptyDistance}),
                    h, EmptyFraction)
        boundaries == <<0>> \o SelectSeq(ScanRange(im.width), Test) \o <<im.width>>
    IN  FilterClose(Dedup(SortVec(boundaries)), 0, cfg, im.width)

FindEmptySpaceBoundariesVertical(im, cfg, background_color) ==
    LET w == im.width
        Test(y) ==
            Exceeds(Cardinality({x \in 0..(w - 1) :
                        Abs(GrayAt(im, x, y) - background_color) <= EmptyDistance}),
                    w, EmptyFraction)
        boundaries == <<0>> \o SelectSeq(ScanRange(im.height), Test) \o <<im.height>>
    IN  FilterClose(Dedup(SortVec(boundaries)), 0, cfg, im.height)

\* the column strips of fallback_detection: only the strip's width is validated
ColumnStrips(im, v, cfg, vb) ==
    LET Candidate(i) == [x |-> vb[i], y |-> 0,
                         width |-> vb[i + 1] - vb[i], height |-> im.height]
        Accept(f) ==
            /\ SizeOk(cfg, f.width)
            /\ FrameHasContent(im, v, f.x, 0, f.width, im.height)
    IN  IF Len(vb) > 1
        THEN SelectSeq([i \in 1..(Len(vb) - 1) |-> Candidate(i)], Accept)
        ELSE <<>>

\* the row strips of fallback_detection: only the strip's height is validated
RowStrips(im, v, cfg, hb) ==
    LET Candidate(i) == [x |-> 0, y |-> hb[i],
                         width |-> im.width, height |-> hb[i + 1] - hb[i]]
        Accept(f) ==
            /\ SizeOk(cfg, f.height)
            /\ FrameHasContent(im, v, 0, f.y, im.width, f.height)
    IN  IF Len(hb) > 1
        THEN SelectSeq([i \in 1..(Len(hb) - 1) |-> Candidate(i)], Accept)
        ELSE <<>>

----------------------------------------------------------------------------
(* extract_frame: DynamicImage::crop_imm clamps the rectangle to the image *)

CropDims(im, f) ==
    LET x == Min(f.x, im.width)
        y == Min(f.y, im.height)
    IN  <<Min(f.width, im.width - x), Min(f.height, im.height - y)>>

----------------------------------------------------------------------------
Chan == (0..MaxChan) \cup {255}
Alphas == {0, 255}
Tolerances == (0..MaxTol) \cup {255}
PixelSet == {<<r, g, b, a>> : r \in Chan, g \in Chan, b \in Chan, a \in Alphas}

\* CutterConfig::default() of each version
DefaultConfig(v) ==
    IF v = "strict"
    THEN [min_sprite_size |-> 16, max_sprite_size |-> 512, background_tolerance |-> 10,
          remove_background |-> TRUE, output_dir |-> "assets2"]
    ELSE [min_sprite_size |-> 8, max_sprite_size |-> 1024, background_tolerance |-> 20,
          remove_background |-> TRUE, output_dir |-> "assets2"]

NoImage == [width |-> 0, height |-> 0, px |-> <<>>]

NoDetection ==
    /\ vertical_boundaries = <<>>
    /\ horizontal_boundaries = <<>>
    /\ primary = <<>>
    /\ fb_boundaries = <<>>
    /\ fb_axis = "none"
    /\ frames = <<>>
    /\ cropped = <<>>

\* process_directory is not running
NoRun ==
    /\ folders = <<>>
    /\ folder_index = 0
    /\ image_files = <<>>
    /\ index = 0
    /\ frame_index = 0
    /\ written = <<>>
    /\ results = <<>>
    /\ outcome = "none"
    /\ total_processed = 0

InitPixel ==
    /\ pixel \in PixelSet
    /\ background \in PixelSet
    /\ variant \in {"strict", "relaxed"}
    /\ \E t \in Tolerances :
          config = [DefaultConfig(variant) EXCEPT !.background_tolerance = t]
    /\ verdict = "none"
    /\ img = NoImage
    /\ pc = "pixel"
    /\ NoDetection
    /\ NoRun
    /\ stripped = <<>>

\* one call of is_background_pixel(pixel, background) under config.background_tolerance
CallIsBackgroundPixel ==
    /\ verdict = "none"
    /\ pc = "pixel"
    /\ verdict' = IF IsBackgroundPixel(pixel, background, config.background_tolerance)
                  THEN "background" ELSE "content"
    /\ UNCHANGED <<runVars, pixel, background, imageVars, pc, detectVars, stripped>>

NextPixel == CallIsBackgroundPixel

SpecPixel == InitPixel /\ [][NextPixel]_vars

\* the largest of the three colour-channel distances between p and b
ChannelDistance(p, b) ==
    LET d(i) == IF p[i] >= b[i] THEN p[i] - b[i] ELSE b[i] - p[i]
    IN  CHOOSE m \in {d(1), d(2), d(3)} : \A k \in {d(1), d(2), d(3)} : k <= m

\* C1: is_background_pixel answers true exactly when the largest of the R, G and B
\* distances to the background is at most the tolerance (a distance of exactly the
\* tolerance is accepted, tolerance + 1 in any channel is rejected), whatever the
\* two alpha values are.
C1_ToleranceExact ==
    verdict # "none" =>
        /\ (verdict = "background") <=>
              (ChannelDistance(pixel, background) <= config.background_tolerance)
        /\ \A a1 \in Alphas, a2 \in Alphas :
              IsBackgroundPixel(<<pixel[1], pixel[2], pixel[3], a1>>,
                                <<background[1], background[2], background[3], a2>>,
                                config.background_tolerance) = (verdict = "background")

\* a pixel exactly `tolerance` away in each channel was accepted
C1_WitnessAtTolerance ==
    /\ verdict = "background"
    /\ config.background_tolerance > 0
    /\ \A i \in 1..3 : Abs(pixel[i] - background[i]) = config.background_tolerance
    /\ pixel[4] # background[4]

----------------------------------------------------------------------------
(* The images and configurations detection is run on *)

Transparent == <<0, 0, 0, 0>>
White == <<255, 255, 255, 255>>
Black == <<0, 0, 0, 255>>
Grey == <<40, 40, 40, 255>>
Red == <<255, 0, 0, 255>>
ClearWhite == <<255, 255, 255, 0>>

MarkPalette == {Transparent, White, Black}
UniformPalette == {Transparent, White, Black, Grey, Red, ClearWhite}

Coords(w, h) == (0..(w - 1)) \X (0..(h - 1))

UniformImage(w, h, p) == [width |-> w, height |-> h, px |-> [c \in Coords(w, h) |-> p]]

\* an image filled with `fill` except for the pixels in the domain of `marks`
MarkedImage(w, h, fill, marks) ==
    [width |-> w, height |-> h,
     px |-> [c \in Coords(w, h) |-> IF c \in DOMAIN marks THEN marks[c] ELSE fill]]

\* the subsets of S with at most k elements
RECURSIVE SubsetsUpTo(_, _)
SubsetsUpTo(S, k) ==
    IF k = 0 THEN {{}}
    ELSE LET smaller == SubsetsUpTo(S, k - 1)
         IN  smaller \cup {T \cup {e} : T \in smaller, e \in S}

\* img is one of the enumerated images: any size up to MaxWidth x MaxHeight, any
\* fill colour, at most MaxMarks pixels of another colour; or a uniform image
IsSmallImage(im) ==
    \E d \in (0..MaxWidth) \X (0..MaxHeight) :
        \/ \E fill \in MarkPalette :
              \E where \in SubsetsUpTo(Coords(d[1], d[2]), MaxMarks) :
                 \E marks \in [where -> MarkPalette \ {fill}] :
                    im = MarkedImage(d[1], d[2], fill, marks)
        \/ \E p \in UniformPalette : im = UniformImage(d[1], d[2], p)

\* the 104 x 32 sheet: opaque blocks at columns 0..31, 40..71 and 80..103 with
\* fully transparent gutters at columns 32..39 and 72..79
Sheet ==
    [width |-> 104, height |-> 32,
     px |-> [c \in Coords(104, 32) |->
                IF c[1] \in (32..39) \cup (72..79) THEN Transparent ELSE White]]

\* a 24 x 16 image of one luma whose first n pixels (row by row) are opaque and
\* whose other pixels are fully transparent
Speckled(n) ==
    [width |-> 24, height |-> 16,
     px |-> [c \in Coords(24, 16) |-> IF c[2] * 24 + c[1] < n THEN White ELSE ClearWhite]]

\* a 40 x 40 sheet of two by two opaque blocks: columns and rows 16..23 are a
\* fully transparent gutter
GridSheet ==
    [width |-> 40, height |-> 40,
     px |-> [c \in Coords(40, 40) |->
                IF c[1] \in 16..23 \/ c[2] \in 16..23 THEN Transparent ELSE White]]

\* the sheets, and images large enough for the default configurations
LargeImages ==
    {Sheet, GridSheet, UniformImage(16, 4, White), UniformImage(4, 16, White)}
        \cup {UniformImage(24, 16, p) : p \in UniformPalette}
        \cup {Speckled(n) : n \in 0..MaxSpeckles}

\* a configuration scaled to the enumerated images
SmallConfig ==
    [min_sprite_size |-> 2, max_sprite_size |-> 3, background_tolerance |-> 10,
     remove_background |-> TRUE, output_dir |-> "assets2"]

----------------------------------------------------------------------------
(* detect_sprite_frames on one image, then extract_frame on each frame *)

InitDetect ==
    /\ variant \in {"strict", "relaxed"}
    /\ \/ IsSmallImage(img) /\ config = SmallConfig
       \/ img \in LargeImages /\ config = DefaultConfig(variant)
    /\ pc = "loaded"
    /\ NoDetection
    /\ NoRun
    /\ pixel = Transparent
    /\ background = Transparent
    /\ verdict = "none"
    /\ stripped = <<>>

\* find_vertical_boundaries and find_horizontal_boundaries on the luma image
FindBoundaries ==
    /\ pc = "loaded"
    /\ vertical_boundaries' = FindVerticalBoundaries(img, variant)
    /\ horizontal_boundaries' = FindHorizontalBoundaries(img, variant)
    /\ pc' = "boundaries"
    /\ UNCHANGED <<runVars, pixelVars, imageVars, primary, fb_boundaries, fb_axis, frames,
                   cropped, stripped>>

\* the grid loop; the strict version returns its result, the relaxed version
\* goes on to the fallback when the grid accepted nothing
AssembleGrid ==
    /\ pc = "boundaries"
    /\ primary' = GridFrames(img, variant, config, vertical_boundaries,
                             horizontal_boundaries)
    /\ IF primary' # <<>> \/ variant = "strict"
       THEN frames' = primary' /\ pc' = "detected"
       ELSE frames' = <<>> /\ pc' = "fallback_columns"
    /\ UNCHANGED <<runVars, pixelVars, imageVars, vertical_boundaries, horizontal_boundaries,
                   fb_boundaries, fb_axis, cropped, stripped>>

\* the first attempt without the "if frames.is_empty()" that guards the second
FallbackColumnsThenRows ==
    /\ pc = "fallback_columns"
    /\ \E background_color \in MostCommonColors(img) :
          fb_boundaries' = FindEmptySpaceBoundariesHorizontal(img, config, background_color)
    /\ fb_axis' = "columns"
    /\ frames' = ColumnStrips(img, variant, config, fb_boundaries')
    /\ pc' = "fallback_rows"
    /\ UNCHANGED <<runVars, pixelVars, imageVars, vertical_boundaries, horizontal_boundaries,
                   primary, cropped, stripped>>

\* fallback_detection, first attempt: column strips between empty columns
FallbackColumns ==
    /\ pc = "fallback_columns"
    /\ \E background_color \in MostCommonColors(img) :
          fb_boundaries' = FindEmptySpaceBoundariesHorizontal(img, config, background_color)
    /\ fb_axis' = "columns"
    /\ frames' = ColumnStrips(img, variant, config, fb_boundaries')
    /\ pc' = IF frames' # <<>> THEN "detected" ELSE "fallback_rows"
    /\ UNCHANGED <<runVars, pixelVars, imageVars, vertical_boundaries, horizontal_boundaries,
                   primary, cropped, stripped>>

\* fallback_detection, second attempt: row strips between empty rows, pushed
\* onto the same vector
FallbackRows ==
    /\ pc = "fallback_rows"
    /\ \E background_color \in MostCommonColors(img) :
          fb_boundaries' = FindEmptySpaceBoundariesVertical(img, config, background_color)
    /\ fb_axis' = "rows"
    /\ frames' = frames \o RowStrips(img, variant, config, fb_boundaries')
    /\ pc' = "detected"
    /\ UNCHANGED <<runVars, pixelVars, imageVars, vertical_boundaries, horizontal_boundaries,
                   primary, cropped, stripped>>

\* process_spritesheet with no frame: the relaxed version reports 0 frames and
\* process_directory copies the image as a single sprite; the strict version
\* returns without writing anything
NoFrames ==
    /\ pc = "detected"
    /\ frames = <<>>
    /\ pc' = IF variant = "relaxed" THEN "single_sprite" ELSE "skipped"
    /\ UNCHANGED <<runVars, pixelVars, imageVars, detectVars, stripped>>

\* extract_frame on every returned frame, in order
ExtractFrames ==
    /\ pc = "detected"
    /\ frames # <<>>
    /\ cropped' = [k \in 1..Len(frames) |-> CropDims(img, frames[k])]
    /\ pc' = "extracted"
    /\ UNCHANGED <<runVars, pixelVars, imageVars, vertical_boundaries, horizontal_boundaries,
                   primary, fb_boundaries, fb_axis, frames, stripped>>

NextDetect ==
    \/ FindBoundaries
    \/ AssembleGrid
    \/ FallbackColumns
    \/ FallbackRows
    \/ NoFrames
    \/ ExtractFrames

SpecDetect == InitDetect /\ [][NextDetect]_vars

----------------------------------------------------------------------------
(* Properties of detection *)

BoundariesKnown == pc \notin {"loaded", "pixel", "strip"}
Detected == pc \in {"detected", "extracted", "single_sprite", "skipped"}

StrictlyIncreasing(s) == \A i \in 1..(Len(s) - 1) : s[i] < s[i + 1]

\* a boundary list as the data model describes it
WellFormedBoundaries(s, extent) ==
    /\ Len(s) >= 1
    /\ StrictlyIncreasing(s)
    /\ s[1] = 0
    /\ s[Len(s)] = extent

\* C2: for every image, widths and heights 0, 1 and 2 included, the lists of
\* find_vertical_boundaries and find_horizontal_boundaries are non-empty, strictly
\* increasing, start at 0 and end at the width, respectively the height.
C2_BoundaryListsWellFormed ==
    BoundariesKnown =>
        /\ WellFormedBoundaries(vertical_boundaries, img.width)
        /\ WellFormedBoundaries(horizontal_boundaries, img.height)

\* a two-pixel-wide image (no interior column is scanned) with an interior row boundary
C2_Witness ==
    /\ pc = "boundaries"
    /\ img.width = 2
    /\ vertical_boundaries = <<0, 2>>
    /\ Len(horizontal_boundaries) > 2

\* the opaque pixels (alpha above 10) of the rectangle f
OpaqueIn(im, f) ==
    Cardinality({c \in Coords(im.width, im.height) :
                    /\ c[1] >= f.x /\ c[1] < f.x + f.width
                    /\ c[2] >= f.y /\ c[2] < f.y + f.height
                    /\ im.px[c][4] > 10})

InSizeRange(n) == config.min_sprite_size <= n /\ n <= config.max_sprite_size

\* C3: every frame the grid loop accepts has its width and its height within
\* [min_sprite_size, max_sprite_size] and a share of pixels with alpha above 10
\* strictly greater than 0.05 (strict version) or 0.02 (relaxed version).
C3_GridFramesPassFilter ==
    BoundariesKnown /\ pc # "boundaries" =>
        \A k \in 1..Len(primary) :
            LET f == primary[k] IN
            /\ InSizeRange(f.width)
            /\ InSizeRange(f.height)
            /\ IF variant = "strict"
               THEN 100 * OpaqueIn(img, f) > 5 * f.width * f.height
               ELSE 100 * OpaqueIn(img, f) > 2 * f.width * f.height

\* the relaxed grid accepted a frame whose density the strict threshold rejects
C3_Witness ==
    /\ variant = "relaxed"
    /\ pc = "detected"
    /\ Len(primary) = 1
    /\ 100 * OpaqueIn(img, primary[1]) <= 5 * primary[1].width * primary[1].height

\* C4: every frame detect_sprite_frames returns, from the grid or from the
\* fallback, lies inside the image, and its crop has the declared width and height.
C4_FramesInsideImage ==
    Detected =>
        /\ \A k \in 1..Len(frames) :
              /\ frames[k].x + frames[k].width <= img.width
              /\ frames[k].y + frames[k].height <= img.height
        /\ pc = "extracted" =>
              /\ Len(cropped) = Len(frames)
              /\ \A k \in 1..Len(frames) :
                    cropped[k] = <<frames[k].width, frames[k].height>>

\* fallback strips ending at the right edge of the image were cropped
C4_Witness ==
    /\ pc = "extracted"
    /\ fb_axis = "columns"
    /\ Len(frames) >= 2
    /\ frames[Len(frames)].x + frames[Len(frames)].width = img.width

\* C5 (as claimed): every frame of fallback_detection has its width and its height
\* within [min_sprite_size, max_sprite_size].
C5_FallbackFramesInSizeRange ==
    Detected /\ fb_axis # "none" =>
        \A k \in 1..Len(frames) :
            InSizeRange(frames[k].width) /\ InSizeRange(frames[k].height)

\* C6 (as claimed): the lists of find_empty_space_boundaries_horizontal and
\* find_empty_space_boundaries_vertical, after the close-boundary merge, are
\* strictly increasing, start at 0 and end at the width, respectively the height.
C6_FallbackBoundariesWellFormed ==
    /\ fb_axis = "columns" => WellFormedBoundaries(fb_boundaries, img.width)
    /\ fb_axis = "rows" => WellFormedBoundaries(fb_boundaries, img.height)

IsUniform(im) == \A c \in DOMAIN im.px : im.px[c] = im.px[<<0, 0>>]

\* C7 (as claimed): for every image of one colour, opaque or transparent, the grid
\* and the fallback both yield no frame and the single-sprite passthrough is taken.
C7_UniformYieldsNoFrame ==
    IsUniform(img) /\ Detected =>
        /\ primary = <<>>
        /\ frames = <<>>
        /\ pc # "extracted"

\* C7 (amended): for every image of one colour whose alpha is at most 10, the grid
\* and the fallback both yield no frame; detect_sprite_frames returns the empty
\* list, no frame is extracted, and the relaxed version takes the single-sprite
\* passthrough.
C7_TransparentUniformYieldsNoFrame ==
    /\ IsUniform(img)
    /\ \A c \in DOMAIN img.px : img.px[c][4] <= 10
    /\ Detected
    =>  /\ primary = <<>>
        /\ frames = <<>>
        /\ pc \in {"detected", "single_sprite", "skipped"}
        /\ pc = "skipped" => variant = "strict"

\* a transparent uniform image went through both fallback attempts to the passthrough
C7_Witness ==
    /\ IsUniform(img)
    /\ img.width = 24
    /\ img.px[<<0, 0>>] = ClearWhite
    /\ fb_axis = "rows"
    /\ pc = "single_sprite"

SheetBlocks == <<0..31, 40..71, 80..103>>

\* C8 (as claimed): on the sheet find_vertical_boundaries returns
\* {0, 32, 40, 72, 80, 104} and detect_sprite_frames returns 3 frames of width 32.
C8_SheetGutterEdges ==
    img = Sheet /\ Detected =>
        /\ vertical_boundaries = <<0, 32, 40, 72, 80, 104>>
        /\ Len(frames) = 3
        /\ \A k \in 1..Len(frames) : frames[k].width = 32

\* C8 (amended): on the sheet find_vertical_boundaries returns 0, every gutter
\* column (32..39 and 72..79) and 104; detect_sprite_frames returns exactly 3
\* frames, 32 rows high, at x = 0, 39 and 79 with widths 32, 33 and 25, each
\* containing exactly one of the three blocks.
C8_SheetGutterColumns ==
    img = Sheet /\ Detected =>
        /\ vertical_boundaries =
              <<0, 32, 33, 34, 35, 36, 37, 38, 39, 72, 73, 74, 75, 76, 77, 78, 79, 104>>
        /\ frames = <<[x |-> 0, y |-> 0, width |-> 32, height |-> 32],
                      [x |-> 39, y |-> 0, width |-> 33, height |-> 32],
                      [x |-> 79, y |-> 0, width |-> 25, height |-> 32]>>
        /\ \A k \in 1..3 : \A b \in 1..3 :
              LET columns == frames[k].x..(frames[k].x + frames[k].width - 1)
              IN  IF b = k THEN SheetBlocks[b] \subseteq columns
                  ELSE SheetBlocks[b] \cap columns = {}

\* the sheet's frames were extracted
C8_Witness ==
    /\ img = Sheet
    /\ pc = "extracted"
    /\ Len(frames) = 3

----------------------------------------------------------------------------
(* Background stripper: remove_background and detect_background_color *)

\* detect_background_color: the colours max_by_key can return for the corner
\* block.  The counts live in a HashMap, whose iteration order is seeded at
\* random, so among colours that tie for the largest count any one may be returned.
BackgroundColors(im) ==
    LET samples == (0..(Min(SampleSize, im.width) - 1)) \X (0..(Min(SampleSize, im.height) - 1))
        Count(p) == Cardinality({c \in samples : im.px[c] = p})
        colors == {im.px[c] : c \in samples}
    IN  IF samples = {} THEN {White}
        ELSE {p \in colors : \A q \in colors : Count(q) <= Count(p)}

\* the pixel loop of remove_background with the estimate background_color
RemoveBackground(im, background_color, tol) ==
    [im EXCEPT !.px = [c \in DOMAIN im.px |->
                          IF IsBackgroundPixel(im.px[c], background_color, tol)
                          THEN Transparent
                          ELSE im.px[c]]]

NearWhite == <<245, 245, 245, 255>>
BluishWhite == <<255, 255, 244, 255>>
StripPalette == {White, NearWhite, BluishWhite, Red, ClearWhite}
StripTolerances == {0, 10, 20}

\* a one-row image, two pixels wider than the corner block: n pixels of p, then q
LongRow(n, p, q) ==
    [width |-> SampleSize + 2, height |-> 1,
     px |-> [c \in Coords(SampleSize + 2, 1) |-> IF c[1] < n THEN p ELSE q]]

\* the images remove_background is run on: every one-row image up to MaxRow
\* pixels, white images with at most MaxMarks red pixels, and long rows
IsStripImage(im) ==
    \/ \E w \in 0..MaxRow : \E row \in [Coords(w, 1) -> StripPalette] :
          im = [width |-> w, height |-> 1, px |-> row]
    \/ \E d \in (1..MaxWidth) \X (1..MaxHeight) :
          \E where \in SubsetsUpTo(Coords(d[1], d[2]), MaxMarks) :
             im = MarkedImage(d[1], d[2], White, [c \in where |-> Red])
    \/ \E n \in 0..(SampleSize + 2) : \E p \in {Red, NearWhite} :
          im = LongRow(n, p, White)

InitStrip ==
    /\ variant \in {"strict", "relaxed"}
    /\ IsStripImage(img)
    /\ \E t \in StripTolerances :
          config = [DefaultConfig(variant) EXCEPT !.background_tolerance = t]
    /\ pc = "strip"
    /\ stripped = <<>>
    /\ NoDetection
    /\ NoRun
    /\ pixel = Transparent
    /\ background = Transparent
    /\ verdict = "none"

\* one execution of remove_background(img)
CallRemoveBackground ==
    /\ pc = "strip"
    /\ Len(stripped) < MaxRuns
    /\ \E background_color \in BackgroundColors(img) :
          stripped' = Append(stripped,
                             [background_color |-> background_color,
                              image |-> RemoveBackground(img, background_color,
                                                         config.background_tolerance)])
    /\ UNCHANGED <<runVars, pixelVars, imageVars, pc, detectVars>>

NextStrip == CallRemoveBackground

SpecStrip == InitStrip /\ [][NextStrip]_vars

\* im is white except for exactly one red pixel, which is not on its border
WhiteWithOneInteriorRed(im) ==
    /\ Cardinality({c \in DOMAIN im.px : im.px[c] = Red}) = 1
    /\ \A c \in DOMAIN im.px :
          \/ im.px[c] = White
          \/ /\ im.px[c] = Red
             /\ 0 < c[1] /\ c[1] < im.width - 1
             /\ 0 < c[2] /\ c[2] < im.height - 1

\* C9: remove_background returns an image of the same dimensions in which every
\* pixel whose R, G and B are within background_tolerance of the estimate is
\* (0, 0, 0, 0) and every other pixel is unchanged; on a white image with one
\* interior red pixel and tolerance 10 the estimate is white, every white pixel
\* becomes transparent and the red pixel keeps its colour and alpha.
C9_StripEffect ==
    \A k \in 1..Len(stripped) :
        LET out == stripped[k].image
            estimate == stripped[k].background_color
        IN  /\ out.width = img.width
            /\ out.height = img.height
            /\ DOMAIN out.px = DOMAIN img.px
            /\ \A c \in DOMAIN img.px :
                  out.px[c] =
                      IF ChannelDistance(img.px[c], estimate) <= config.background_tolerance
                      THEN <<0, 0, 0, 0>>
                      ELSE img.px[c]
            /\ WhiteWithOneInteriorRed(img) /\ config.background_tolerance = 10 =>
                  \A c \in DOMAIN img.px :
                      out.px[c] = IF img.px[c] = Red THEN <<255, 0, 0, 255>>
                                  ELSE <<0, 0, 0, 0>>

\* a white image with one interior red pixel was stripped with tolerance 10
C9_Witness ==
    /\ WhiteWithOneInteriorRed(img)
    /\ config.background_tolerance = 10
    /\ Len(stripped) >= 1

\* C10 (as claimed): two executions of remove_background on the same image with
\* the same configuration produce identical images, also when colours tie for
\* most frequent in the corner block.
C10_StripDeterministic ==
    \A i, j \in 1..Len(stripped) : stripped[i].image = stripped[j].image

----------------------------------------------------------------------------
(* Order and shape of the detected frames *)

\* f comes before g in row-major order: the higher band first, and left to
\* right within a band
RowMajorBefore(f, g) == f.y < g.y \/ (f.y = g.y /\ f.x < g.x)

\* f comes before g in column-major order: the band further left first, and top
\* to bottom within a band
ColumnMajorBefore(f, g) == f.x < g.x \/ (f.x = g.x /\ f.y < g.y)

\* C11 as stated: the frames of the primary grid are emitted in row-major order
\* (of two emitted frames the one with the smaller y comes first and, at equal
\* y, the one with the smaller x), and the file index follows that order.
C11_RowMajorOrder ==
    Detected => \A a, b \in 1..Len(primary) :
                    a < b => RowMajorBefore(primary[a], primary[b])

\* C11, amended: the frames of the primary grid are emitted in column-major
\* order (of two emitted frames the one with the smaller x comes first and, at
\* equal x, the one with the smaller y); the frame list handed to the save loop,
\* whose 1-based position is the file index, is the primary list in that order.
C11_ColumnMajorOrder ==
    Detected =>
        /\ \A a, b \in 1..Len(primary) :
              a < b => ColumnMajorBefore(primary[a], primary[b])
        /\ primary # <<>> => frames = primary

\* two column bands and two row bands were accepted: the second frame emitted is
\* below the first, the third is to the right of both and above the second
C11_Witness ==
    /\ Detected
    /\ Len(primary) = 4
    /\ primary[2].x = primary[1].x /\ primary[2].y > primary[1].y
    /\ primary[3].x > primary[2].x /\ primary[3].y < primary[2].y
    /\ frames = primary

\* f spans the whole height of the image / the whole width of the image
IsColumnStrip(f) == f.y = 0 /\ f.height = img.height
IsRowStrip(f) == f.x = 0 /\ f.width = img.width

\* C17: in src/src/main.rs fallback_detection is invoked exactly when the primary
\* grid yields zero frames (a non-empty primary list is returned unchanged);
\* inside the fallback the row attempt is made only when the column attempt
\* yielded zero frames, so the returned list holds strips of one axis only.
C17_FallbackControl ==
    variant = "relaxed" =>
        /\ fb_axis # "none" => primary = <<>> /\ pc \notin {"loaded", "boundaries"}
        /\ Detected /\ primary = <<>> => fb_axis # "none"
        /\ Detected /\ primary # <<>> => frames = primary /\ fb_axis = "none"
        /\ pc = "fallback_rows" => fb_axis = "columns" /\ frames = <<>>
        /\ Detected /\ fb_axis = "columns" =>
              frames # <<>> /\ \A k \in 1..Len(frames) : IsColumnStrip(frames[k])
        /\ Detected /\ fb_axis = "rows" =>
              \A k \in 1..Len(frames) : IsRowStrip(frames[k])

\* the grid accepted nothing, the column attempt accepted nothing, and the row
\* attempt returned a strip that is not a column strip
C17_Witness ==
    /\ variant = "relaxed"
    /\ Detected
    /\ primary = <<>>
    /\ fb_axis = "rows"
    /\ \E k \in 1..Len(frames) : ~IsColumnStrip(frames[k])

----------------------------------------------------------------------------
(* The two signals of the primary boundary detector *)

InList(s, c) == \E i \in 1..Len(s) : s[i] = c

\* the samples of line c: column c read top to bottom (axis "x", extent = the
\* height) or row c read left to right (axis "y", extent = the width)
LineLuma(axis, c, k) == IF axis = "x" THEN GrayAt(img, c, k) ELSE GrayAt(img, k, c)
LineLength(axis) == IF axis = "x" THEN img.height ELSE img.width
AxisExtent(axis) == IF axis = "x" THEN img.width ELSE img.height
BoundaryList(axis) == IF axis = "x" THEN vertical_boundaries ELSE horizontal_boundaries

DarkSamples(axis, c) ==
    Cardinality({k \in 0..(LineLength(axis) - 1) : LineLuma(axis, c, k) < DarkLuma})

JumpingPairs(axis, c) ==
    Cardinality({k \in 0..(LineLength(axis) - 2) :
                    Abs(LineLuma(axis, c, k) - LineLuma(axis, c, k + 1)) > EdgeDelta(variant)})

\* n / d > q[1] / q[2] for a positive d; no fraction otherwise
Over(n, d, q) == d > 0 /\ n * q[2] > q[1] * d

MostlyDark(axis, c) == Over(DarkSamples(axis, c), LineLength(axis), DarkFraction(variant))

\* C19 as stated: every interior coordinate c = 1 .. extent-1 is in the primary
\* boundary list exactly when the dark fraction of its line exceeds the
\* mostly-empty threshold or the jumping pairs, divided by the number of
\* adjacent pairs, exceed the edge threshold; no interior coordinate is skipped.
C19_InteriorSignalsOverPairs ==
    BoundariesKnown =>
        \A axis \in {"x", "y"} : \A c \in 1..(AxisExtent(axis) - 1) :
            InList(BoundaryList(axis), c) <=>
                \/ MostlyDark(axis, c)
                \/ Over(JumpingPairs(axis, c), LineLength(axis) - 1, EdgeFraction(variant))

\* C19, amended: every coordinate c = 1 .. extent-2 is in the primary boundary
\* list exactly when the dark fraction of its line exceeds the mostly-empty
\* threshold or the jumping pairs, divided by the length of the line (one more
\* than the number of pairs), exceed the edge threshold; the last interior
\* coordinate extent-1 is never tested and never in the list.
C19_ScannedSignalsOverLength ==
    BoundariesKnown =>
        \A axis \in {"x", "y"} :
            /\ \A c \in 1..(AxisExtent(axis) - 2) :
                  InList(BoundaryList(axis), c) <=>
                      \/ MostlyDark(axis, c)
                      \/ Over(JumpingPairs(axis, c), LineLength(axis), EdgeFraction(variant))
            /\ AxisExtent(axis) >= 2 => ~InList(BoundaryList(axis), AxisExtent(axis) - 1)

\* a scanned column is a boundary by its luma jumps alone, and the mostly dark
\* last column is not in the list
C19_Witness ==
    /\ BoundariesKnown
    /\ \E c \in 1..(img.width - 2) :
          InList(vertical_boundaries, c) /\ ~MostlyDark("x", c)
    /\ img.width >= 2 /\ MostlyDark("x", img.width - 1)
    /\ ~InList(vertical_boundaries, img.width - 1)

\* the rectangles f and g have a pixel in common
Overlap(f, g) ==
    /\ f.x < g.x + g.width /\ g.x < f.x + f.width
    /\ f.y < g.y + g.height /\ g.y < f.y + f.height

\* C20: the frames returned by detect_sprite_frames for one image are pairwise
\* non-overlapping rectangles, whether they come from the primary grid or from
\* either axis of the fallback.
C20_FramesDisjoint ==
    Detected => \A a, b \in 1..Len(frames) : a # b => ~Overlap(frames[a], frames[b])

\* several frames were returned: by the grid in both directions, and by the
\* fallback
C20_Witness ==
    /\ Detected
    /\ \/ /\ Len(frames) = 4 /\ fb_axis = "none"
          /\ frames[2].x = frames[1].x /\ frames[3].y = frames[1].y
       \/ Len(frames) >= 2 /\ fb_axis # "none"

----------------------------------------------------------------------------
(* File names.  A name is the sequence of its characters. *)

Digit == <<"0", "1", "2", "3", "4", "5", "6", "7", "8", "9">>

\* the decimal digits of n, most significant first
RECURSIVE Decimal(_)
Decimal(n) ==
    IF n < 10 THEN <<Digit[n + 1]>>
    ELSE Decimal(n \div 10) \o <<Digit[(n % 10) + 1]>>

PadWidth == 3        \* "{:03}"

\* "{:03}": the decimal digits, padded on the left with zeros up to PadWidth
ZeroPadded(n) ==
    LET digits == Decimal(n)
    IN  [i \in 1..SaturatingSub(PadWidth, Len(digits)) |-> "0"] \o digits

FrameInfix == <<"_", "f", "r", "a", "m", "e", "_">>
PngSuffix == <<".", "p", "n", "g">>

\* the file name that numbers the frames from 0
FrameFileNameFromZero(base_name, k) ==
    base_name \o FrameInfix \o ZeroPadded(k) \o PngSuffix

\* format!("{}_frame_{:03}.png", base_name, frame_index + 1), k = frame_index
FrameFileName(base_name, k) ==
    base_name \o FrameInfix \o ZeroPadded(k + 1) \o PngSuffix

\* position of the last "." of a name, 0 when it has none
LastDot(name) ==
    LET dots == {i \in 1..Len(name) : name[i] = "."}
    IN  IF dots = {} THEN 0 ELSE CHOOSE i \in dots : \A j \in dots : j <= i

\* Path::file_stem: the name up to its last ".", the whole name when there is
\* no "." after the first character
FileStem(name) ==
    IF LastDot(name) <= 1 THEN name ELSE SubSeq(name, 1, LastDot(name) - 1)

\* Path::extension: what follows the last "."; <<>> stands for None
Extension(name) ==
    IF LastDot(name) <= 1 THEN <<>> ELSE SubSeq(name, LastDot(name) + 1, Len(name))

Uppercase == <<"A", "B", "C", "D", "E", "F", "G", "H", "I", "J", "K", "L", "M",
               "N", "O", "P", "Q", "R", "S", "T", "U", "V", "W", "X", "Y", "Z">>
Lowercase == <<"a", "b", "c", "d", "e", "f", "g", "h", "i", "j", "k", "l", "m",
               "n", "o", "p", "q", "r", "s", "t", "u", "v", "w", "x", "y", "z">>

\* str::to_lowercase on ASCII names
ToLowercase(name) ==
    [i \in 1..Len(name) |->
        IF \E k \in 1..Len(Uppercase) : Uppercase[k] = name[i]
        THEN Lowercase[CHOOSE k \in 1..Len(Uppercase) : Uppercase[k] = name[i]]
        ELSE name[i]]

supported_extensions ==
    {<<"p", "n", "g">>, <<"j", "p", "g">>, <<"j", "p", "e", "g">>, <<"b", "m", "p">>,
     <<"g", "i", "f">>, <<"t", "i", "f", "f">>, <<"w", "e", "b", "p">>}

\* find_image_files on the entries WalkDir yields: entries that are errors are
\* dropped by filter_map(|e| e.ok()); regular files with a supported extension
\* are kept, in the order of the walk
FindImageFiles(entries) ==
    LET Keep(e) ==
            /\ e.kind = "file"
            /\ ToLowercase(Extension(e.name)) \in supported_extensions
    IN  SelectSeq(entries, Keep)

----------------------------------------------------------------------------
(* The directories process_directory is run on *)

MaxEntries == 2      \* directory entries over all the folders of one run
MaxFolders == 2      \* folders of the relaxed version that exist

\* a 40 x 16 sheet of two opaque blocks with a transparent gutter at columns 16..23
TwoBlocks ==
    [width |-> 40, height |-> 16,
     px |-> [c \in Coords(40, 16) |-> IF c[1] \in 16..23 THEN Transparent ELSE White]]

\* what image::open decodes from the files of the pool
Decoded ==
    [two |-> TwoBlocks,
     one |-> UniformImage(24, 16, White),
     none |-> UniformImage(24, 16, Transparent)]

\* detect_sprite_frames as a whole: the boundary lists, the grid's frames and
\* the frames it can return (the fallback depends on which of the most common
\* lumas each of its two scans picks)
Detections(im, v, cfg) ==
    LET vb == FindVerticalBoundaries(im, v)
        hb == FindHorizontalBoundaries(im, v)
        grid == GridFrames(im, v, cfg, vb, hb)
        Fallback(c1, c2) ==
            LET columns == ColumnStrips(im, v, cfg,
                               FindEmptySpaceBoundariesHorizontal(im, cfg, c1))
            IN  IF columns # <<>> THEN columns
                ELSE columns \o RowStrips(im, v, cfg,
                                   FindEmptySpaceBoundariesVertical(im, cfg, c2))
        returned == IF grid # <<>> \/ v = "strict" THEN {grid}
                    ELSE {Fallback(c1, c2) : c1 \in MostCommonColors(im),
                                             c2 \in MostCommonColors(im)}
    IN  {[vertical_boundaries |-> vb, horizontal_boundaries |-> hb,
          primary |-> grid, frames |-> f] : f \in returned}

\* the detections of the pool's images under each version's sizes
DetectionTable ==
    [two |-> [strict |-> Detections(Decoded.two, "strict", DefaultConfig("strict")),
              relaxed |-> Detections(Decoded.two, "relaxed", DefaultConfig("relaxed"))],
     one |-> [strict |-> Detections(Decoded.one, "strict", DefaultConfig("strict")),
              relaxed |-> Detections(Decoded.one, "relaxed", DefaultConfig("relaxed"))],
     none |-> [strict |-> Detections(Decoded.none, "strict", DefaultConfig("strict")),
               relaxed |-> Detections(Decoded.none, "relaxed", DefaultConfig("relaxed"))]]

\* the directory entries of the runs: two sheets with the same stem, an empty
\* image, a file that does not decode, a file that is no image, a directory
\* named like an image, and an entry the walk reports as an error
EntryPool ==
    {[kind |-> "file", name |-> <<"s", ".", "p", "n", "g">>, image |-> "two"],
     [kind |-> "file", name |-> <<"s", ".", "J", "P", "G">>, image |-> "one"],
     [kind |-> "file", name |-> <<"b", ".", "p", "n", "g">>, image |-> "none"],
     [kind |-> "file", name |-> <<"x", ".", "p", "n", "g">>, image |-> "corrupt"],
     [kind |-> "file", name |-> <<"n", ".", "t", "x", "t">>, image |-> "corrupt"],
     [kind |-> "dir", name |-> <<"d", ".", "p", "n", "g">>, image |-> "corrupt"],
     [kind |-> "error", name |-> <<>>, image |-> "corrupt"]}

\* the sequences of at most n different entries
RECURSIVE EntrySeqs(_)
EntrySeqs(n) ==
    IF n = 0 THEN {<<>>}
    ELSE LET shorter == EntrySeqs(n - 1)
             Unused(es) == {e \in EntryPool : \A i \in 1..Len(es) : es[i] # e}
         IN  shorter \cup UNION {{Append(es, e) : e \in Unused(es)} : es \in shorter}

\* a folder that does not exist, one whose output directory cannot be created,
\* or one with at most n entries
FolderStates(n) ==
    {[exists |-> FALSE, creatable |-> TRUE, entries |-> <<>>],
     [exists |-> TRUE, creatable |-> FALSE, entries |-> <<>>]}
        \cup {[exists |-> TRUE, creatable |-> TRUE, entries |-> es] : es \in EntrySeqs(n)}

\* "Base", "Ships", "Space" of src/src/main.rs; src/main.rs walks the current directory
folders_to_process(v) ==
    IF v = "strict" THEN <<".">> ELSE <<"Base", "Ships", "Space">>

Folder(name, state) ==
    [name |-> name, exists |-> state.exists, creatable |-> state.creatable,
     entries |-> state.entries]

----------------------------------------------------------------------------
(* process_directory: every folder, every image of it, every frame of the image *)

InitRun ==
    /\ variant \in {"strict", "relaxed"}
    /\ \E remove_background \in BOOLEAN :
          config = [DefaultConfig(variant) EXCEPT !.remove_background = remove_background]
    /\ IF variant = "strict"
       THEN \E f \in FolderStates(MaxEntries) :
               /\ f.exists
               /\ folders = <<Folder(folders_to_process(variant)[1], f)>>
       ELSE \E f1 \in FolderStates(MaxEntries) :
               \E f2 \in FolderStates(MaxEntries - Len(f1.entries)) :
                  \E f3 \in FolderStates(MaxEntries - Len(f1.entries) - Len(f2.entries)) :
                     /\ Cardinality({f \in {<<1, f1>>, <<2, f2>>, <<3, f3>>} : f[2].exists})
                           <= MaxFolders
                     /\ folders = <<Folder(folders_to_process(variant)[1], f1),
                                    Folder(folders_to_process(variant)[2], f2),
                                    Folder(folders_to_process(variant)[3], f3)>>
    /\ folder_index = 1
    /\ image_files = <<>>
    /\ index = 0
    /\ frame_index = 0
    /\ written = <<>>
    /\ results = <<>>
    /\ outcome = "running"
    /\ total_processed = 0
    /\ pc = "folder"
    /\ img = NoImage
    /\ NoDetection
    /\ pixel = Transparent
    /\ background = Transparent
    /\ verdict = "none"
    /\ stripped = <<>>

\* the image process_spritesheet is working on
ImagePath == image_files[index]

\* current_dir.join(output_dir), and .join(folder_name) in src/src/main.rs
OutputPath ==
    IF variant = "strict" THEN <<config.output_dir>>
    ELSE <<config.output_dir, folders[folder_index].name>>

\* what process_spritesheet returned for the current image: Ok(frames.len()) in
\* src/src/main.rs, Ok(()) in src/main.rs, or an error
Returned(ok, error) ==
    [folder |-> folder_index, index |-> index, name |-> ImagePath.name,
     ok |-> ok, error |-> error, frames |-> frames,
     returned |-> IF ok /\ variant = "relaxed" THEN <<Len(frames)>> ELSE <<>>]

\* the loops go on: the next image of the folder, or the next folder
NextImage ==
    /\ IF index < Len(image_files)
       THEN /\ index' = index + 1
            /\ pc' = "image"
            /\ UNCHANGED <<folder_index, image_files>>
       ELSE /\ index' = 0
            /\ image_files' = <<>>
            /\ folder_index' = folder_index + 1
            /\ pc' = "folder"
    /\ frame_index' = 0
    /\ vertical_boundaries' = <<>>
    /\ horizontal_boundaries' = <<>>
    /\ primary' = <<>>
    /\ frames' = <<>>
    /\ cropped' = <<>>

\* the body of the folder loop up to the image loop: the folder is skipped
\* when missing, its output directory is created, its images are listed
EnterFolder ==
    /\ pc = "folder"
    /\ folder_index <= Len(folders)
    /\ LET folder == folders[folder_index]
           found == FindImageFiles(folder.entries)
       IN  IF ~folder.exists
           THEN /\ folder_index' = folder_index + 1
                /\ UNCHANGED <<pc, image_files, index, outcome>>
           ELSE IF ~folder.creatable
           THEN /\ outcome' = "create_dir_failed"
                /\ pc' = "done"
                /\ UNCHANGED <<folder_index, image_files, index>>
           ELSE IF found = <<>>
           THEN IF variant = "strict"
                THEN /\ outcome' = "ok"
                     /\ pc' = "done"
                     /\ UNCHANGED <<folder_index, image_files, index>>
                ELSE /\ folder_index' = folder_index + 1
                     /\ UNCHANGED <<pc, image_files, index, outcome>>
           ELSE /\ image_files' = found
                /\ index' = 1
                /\ pc' = "image"
                /\ UNCHANGED <<folder_index, outcome>>
    /\ UNCHANGED <<pixelVars, imageVars, detectVars, stripped, folders, frame_index,
                   written, results, total_processed>>

\* process_spritesheet: image::open; a failure is reported by process_directory
OpenImage ==
    /\ pc = "image"
    /\ IF ImagePath.image = "corrupt"
       THEN /\ results' = Append(results, Returned(FALSE, "open"))
            /\ NextImage
            /\ UNCHANGED <<fb_boundaries, fb_axis>>
       ELSE /\ pc' = "loaded"
            /\ UNCHANGED <<detectVars, folder_index, image_files, index, frame_index,
                           results>>
    /\ UNCHANGED <<pixelVars, imageVars, stripped, folders, written, outcome,
                   total_processed>>

\* detect_sprite_frames: the two boundary lists
RunFindBoundaries ==
    /\ pc = "loaded"
    /\ \E d \in DetectionTable[ImagePath.image][variant] :
          /\ vertical_boundaries' = d.vertical_boundaries
          /\ horizontal_boundaries' = d.horizontal_boundaries
    /\ pc' = "boundaries"
    /\ UNCHANGED <<pixelVars, imageVars, primary, fb_boundaries, fb_axis, frames,
                   cropped, stripped, runVars>>

\* detect_sprite_frames: the grid loop and, in src/src/main.rs, the fallback
RunAssembleFrames ==
    /\ pc = "boundaries"
    /\ \E d \in DetectionTable[ImagePath.image][variant] :
          /\ primary' = d.primary
          /\ frames' = d.frames
    /\ pc' = "assembled"
    /\ UNCHANGED <<pixelVars, imageVars, vertical_boundaries, horizontal_boundaries,
                   fb_boundaries, fb_axis, cropped, stripped, runVars>>

\* "if frames.is_empty()": src/main.rs returns Ok(()) and goes on with the next
\* image; src/src/main.rs returns Ok(0) and process_directory copies the image
ReturnNoFrames ==
    /\ pc = "assembled"
    /\ frames = <<>>
    /\ results' = Append(results, Returned(TRUE, "none"))
    /\ IF variant = "strict"
       THEN NextImage
       ELSE /\ pc' = "single_sprite"
            /\ UNCHANGED <<vertical_boundaries, horizontal_boundaries, primary, frames,
                           cropped, folder_index, image_files, index, frame_index>>
    /\ UNCHANGED <<pixelVars, imageVars, fb_boundaries, fb_axis, stripped, folders,
                   written, outcome, total_processed>>

\* copy_single_sprite(...)?: the image is opened again, stripped when configured
\* and saved under its own name; its error leaves process_directory
CopySingleSprite ==
    /\ pc = "single_sprite"
    /\ \E result \in {"saved", "open_failed", "save_failed"} :
          IF result = "saved"
          THEN /\ written' = Append(written,
                      [folder |-> folder_index, index |-> index, dir |-> OutputPath,
                       name |-> ImagePath.name, frame |-> 0,
                       rect |-> [x |-> 0, y |-> 0,
                                 width |-> Decoded[ImagePath.image].width,
                                 height |-> Decoded[ImagePath.image].height],
                       stripped |-> config.remove_background])
               /\ total_processed' = total_processed + 1
               /\ NextImage
               /\ UNCHANGED outcome
          ELSE /\ outcome' = "copy_failed"
               /\ pc' = "done"
               /\ UNCHANGED <<vertical_boundaries, horizontal_boundaries, primary,
                              frames, cropped, folder_index, image_files, index,
                              frame_index, written, total_processed>>
    /\ UNCHANGED <<pixelVars, imageVars, fb_boundaries, fb_axis, stripped, folders,
                   results>>

\* the frame loop: extract_frame on frames[frame_index]
CropFrame ==
    /\ pc \in {"assembled", "saved"}
    /\ frame_index < Len(frames)
    /\ cropped' = Append(cropped, CropDims(Decoded[ImagePath.image], frames[frame_index + 1]))
    /\ pc' = "cropped"
    /\ UNCHANGED <<pixelVars, imageVars, vertical_boundaries, horizontal_boundaries,
                   primary, fb_boundaries, fb_axis, frames, stripped, runVars>>

\* the frame loop with remove_background called whatever the configuration
StripFrameAlways ==
    /\ pc = "cropped"
    /\ pc' = "stripped"
    /\ UNCHANGED <<pixelVars, imageVars, detectVars, stripped, runVars>>

\* the frame loop: "if self.config.remove_background { self.remove_background(..) }"
StripFrame ==
    /\ pc = "cropped"
    /\ config.remove_background
    /\ pc' = "stripped"
    /\ UNCHANGED <<pixelVars, imageVars, detectVars, stripped, runVars>>

\* the frame loop with the error of save ignored: the loop goes on with the
\* next frame
SaveFrameGoesOn ==
    /\ \/ pc = "stripped"
       \/ pc = "cropped" /\ ~config.remove_background
    /\ \E saved \in BOOLEAN :
          written' = IF saved
                     THEN Append(written,
                            [folder |-> folder_index, index |-> index, dir |-> OutputPath,
                             name |-> FrameFileName(FileStem(ImagePath.name), frame_index),
                             frame |-> frame_index + 1, rect |-> frames[frame_index + 1],
                             stripped |-> (pc = "stripped")])
                     ELSE written
    /\ frame_index' = frame_index + 1
    /\ pc' = "saved"
    /\ UNCHANGED <<vertical_boundaries, horizontal_boundaries, primary, frames, cropped,
                   folder_index, image_files, index, results>>
    /\ UNCHANGED <<pixelVars, imageVars, fb_boundaries, fb_axis, stripped, folders,
                   outcome, total_processed>>

\* the frame loop: processed.save(..)?; a failure ends process_spritesheet and
\* is reported by process_directory
SaveFrame ==
    /\ \/ pc = "stripped"
       \/ pc = "cropped" /\ ~config.remove_background
    /\ \E saved \in BOOLEAN :
          IF saved
          THEN /\ written' = Append(written,
                      [folder |-> folder_index, index |-> index, dir |-> OutputPath,
                       name |-> FrameFileName(FileStem(ImagePath.name), frame_index),
                       frame |-> frame_index + 1, rect |-> frames[frame_index + 1],
                       stripped |-> (pc = "stripped")])
               /\ frame_index' = frame_index + 1
               /\ pc' = "saved"
               /\ UNCHANGED <<vertical_boundaries, horizontal_boundaries, primary,
                              frames, cropped, folder_index, image_files, index,
                              results>>
          ELSE /\ results' = Append(results, Returned(FALSE, "save"))
               /\ NextImage
               /\ UNCHANGED written
    /\ UNCHANGED <<pixelVars, imageVars, fb_boundaries, fb_axis, stripped, folders,
                   outcome, total_processed>>

\* the frame loop is over: Ok(frames.len()) or Ok(()), and the next image
ReturnFrames ==
    /\ pc = "saved"
    /\ frame_index = Len(frames)
    /\ results' = Append(results, Returned(TRUE, "none"))
    /\ total_processed' = IF variant = "relaxed" THEN total_processed + 1
                          ELSE total_processed
    /\ NextImage
    /\ UNCHANGED <<pixelVars, imageVars, fb_boundaries, fb_axis, stripped, folders,
                   written, outcome>>

\* every folder has been handled: process_directory returns Ok(())
Finish ==
    /\ pc = "folder"
    /\ folder_index > Len(folders)
    /\ outcome' = "ok"
    /\ pc' = "done"
    /\ UNCHANGED <<pixelVars, imageVars, detectVars, stripped, folders, folder_index,
                   image_files, index, frame_index, written, results, total_processed>>

NextRun ==
    \/ EnterFolder
    \/ OpenImage
    \/ RunFindBoundaries
    \/ RunAssembleFrames
    \/ ReturnNoFrames
    \/ CopySingleSprite
    \/ CropFrame
    \/ StripFrame
    \/ SaveFrame
    \/ ReturnFrames
    \/ Finish

SpecRun == InitRun /\ [][NextRun]_vars

----------------------------------------------------------------------------
(* What a run leaves behind *)

\* the positions in `written` of the files saved for the image of result r
WritesOf(r) ==
    {w \in 1..Len(written) : written[w].folder = r.folder /\ written[w].index = r.index}

\* the files saved for the image of result r, in the order of their saving
SavedFor(r) ==
    LET Mine(e) == e.folder = r.folder /\ e.index = r.index
    IN  SelectSeq(written, Mine)

\* process_directory is done with the image of result r
ImageEnded(r) ==
    ~(pc = "single_sprite" /\ r.folder = folder_index /\ r.index = index)

\* the images process_directory finds in the folders that exist
ImagesOf(f) == FindImageFiles(folders[f].entries)
ExistingFolders == {f \in 1..Len(folders) : folders[f].exists}

\* C12: for every image that decodes and for which detection yields zero frames,
\* the processing of the image ends with exactly one file written, under the
\* image's own file name (stripped of its background when remove_background is
\* set, unmodified otherwise), and with no _frame_ file written for it.
C12_ZeroFramesCopiedThrough ==
    \A i \in 1..Len(results) :
        LET r == results[i]
        IN  r.ok /\ r.frames = <<>> /\ ImageEnded(r) =>
               /\ Cardinality(WritesOf(r)) = 1
               /\ \A w \in WritesOf(r) :
                     /\ written[w].name = r.name
                     /\ written[w].frame = 0
                     /\ written[w].stripped = config.remove_background

\* C13: a decode failure or a save failure (of a frame or of the copy of an
\* image without frames) never aborts the run: when the output directories can
\* be created, process_directory returns Ok and has attempted every image.
C13_ImageFailureNeverAborts ==
    pc = "done" /\ (\A f \in ExistingFolders : folders[f].creatable) =>
        /\ outcome = "ok"
        /\ \A f \in ExistingFolders : \A j \in 1..Len(ImagesOf(f)) :
              \E i \in 1..Len(results) : results[i].folder = f /\ results[i].index = j

\* C14: when an output directory cannot be created or the walk of an input
\* directory reports an error, process_directory returns an error and processes
\* no image afterwards; an error of the walk is never ignored.
C14_DirectoryFailureIsFatal ==
    /\ outcome = "ok" =>
          \A f \in ExistingFolders :
              /\ folders[f].creatable
              /\ \A k \in 1..Len(folders[f].entries) : folders[f].entries[k].kind # "error"
    /\ outcome = "create_dir_failed" =>
          /\ pc = "done"
          /\ \A i \in 1..Len(results) : results[i].folder < folder_index

\* the digits of k < 1000 in three places
ThreeDigits(k) ==
    <<Digit[((k \div 100) % 10) + 1], Digit[((k \div 10) % 10) + 1], Digit[(k % 10) + 1]>>

\* C15: for an image with n >= 1 accepted frames and no save failure, exactly n
\* files are written, the k-th frame (1-based) under {stem}_frame_{k in three
\* digits}.png, the n names are pairwise distinct, and process_spritesheet
\* reports n frames (its return value in src/src/main.rs, the length of the list
\* it prints as detected in src/main.rs).
C15_FramesSavedUnderNumberedNames ==
    \A i \in 1..Len(results) :
        LET r == results[i]
            n == Len(r.frames)
            saved == SavedFor(r)
            stem == SubSeq(r.name, 1, Len(r.name) - 4)
        IN  r.ok /\ n >= 1 =>
               /\ Len(saved) = n
               /\ \A k \in 1..n :
                     /\ saved[k].frame = k
                     /\ saved[k].rect = r.frames[k]
                     /\ saved[k].name = stem \o <<"_", "f", "r", "a", "m", "e", "_">>
                                             \o ThreeDigits(k) \o <<".", "p", "n", "g">>
               /\ \A k, l \in 1..n : k # l => saved[k].name # saved[l].name
               /\ Cardinality({saved[k].name : k \in 1..n}) = n
               /\ variant = "relaxed" => r.returned = <<n>>

\* both frames of the two-block sheet were saved and the run went on to its end
C15_Witness ==
    /\ pc = "done"
    /\ \E i \in 1..Len(results) :
          /\ results[i].ok
          /\ Len(results[i].frames) = 2
          /\ Len(SavedFor(results[i])) = 2

\* what test_config_default asserts of CutterConfig::default()
test_config_default ==
    [min_sprite_size |-> 16, max_sprite_size |-> 512, background_tolerance |-> 10,
     remove_background |-> TRUE, output_dir |-> "assets2"]

\* C16: CutterConfig::default() returns min_sprite_size 16, max_sprite_size 512,
\* background_tolerance 10, remove_background true and output_dir "assets2", as
\* test_config_default asserts in each source file.
C16_DefaultIsWhatTheTestAsserts ==
    DefaultConfig(variant) = test_config_default

----------------------------------------------------------------------------
(* The life cycle of an image *)

\* image <<f, i>> comes before or is image <<g, j>> in the order of the run
NotAfter(f, i, g, j) == f < g \/ (f = g /\ i <= j)

\* the stages an image and its frames are in, by the position of the run:
\* "loaded" Loaded, "boundaries" BoundariesComputed, "assembled" FramesAssembled,
\* "cropped" Cropped, "stripped" BackgroundStripped, "saved" Saved
StageOrder ==
    /\ pc' = "loaded" /\ pc # "loaded" => pc = "image"
    /\ pc' = "boundaries" /\ pc # "boundaries" => pc = "loaded"
    /\ pc' = "assembled" /\ pc # "assembled" => pc = "boundaries"
    /\ pc' = "cropped" /\ pc # "cropped" =>
          /\ \/ pc = "assembled" /\ frame_index = 0
             \/ pc = "saved"
          /\ Len(cropped') = frame_index + 1
          /\ frame_index < Len(frames)
    /\ pc' = "stripped" /\ pc # "stripped" => pc = "cropped" /\ config.remove_background
    /\ pc' = "saved" =>
          /\ \/ pc = "stripped"
             \/ pc = "cropped" /\ ~config.remove_background
          /\ frame_index' = frame_index + 1
    /\ written' # written =>
          /\ Len(written') = Len(written) + 1
          /\ SubSeq(written', 1, Len(written)) = written
          /\ written'[Len(written')].frame # 0 =>
                /\ pc' = "saved"
                /\ written'[Len(written')].frame = frame_index + 1
                /\ written'[Len(written')].rect = frames[frame_index + 1]
                /\ written'[Len(written')].folder = folder_index
                /\ written'[Len(written')].index = index

OutputsInOrder ==
    /\ pc \in {"image", "loaded", "boundaries", "assembled"} =>
          \A w \in 1..Len(written) :
              ~(written[w].folder = folder_index /\ written[w].index = index)
    /\ \A w \in 1..Len(written) :
          /\ pc # "done" /\ index > 0 =>
                NotAfter(written[w].folder, written[w].index, folder_index, index)
          /\ \A v \in 1..w :
                NotAfter(written[v].folder, written[v].index,
                         written[w].folder, written[w].index)
    /\ \A i \in 1..Len(results) :
          LET r == results[i]
          IN  r.ok /\ r.frames # <<>> =>
                 /\ Cardinality(WritesOf(r)) = Len(r.frames)
                 /\ \A k \in 1..Len(r.frames) :
                       Cardinality({w \in WritesOf(r) : written[w].frame = k}) = 1
                 /\ \A w \in WritesOf(r) : written[w].stripped = config.remove_background

\* C18: when nothing fails, an image is loaded, then its boundaries are
\* computed, then its frames are assembled, then each accepted frame in order is
\* cropped, stripped of its background (a step skipped only when
\* remove_background is false) and saved; no frame is saved before the assembly
\* of its image has finished, every accepted frame is saved exactly once, and
\* all the outputs of an image are written before the next image is loaded.
C18_Lifecycle == [](OutputsInOrder) /\ [][StageOrder]_vars

\* a run over two sheets ended without a failure: three frames were saved, and
\* they were not stripped
C18_Witness ==
    /\ pc = "done"
    /\ outcome = "ok"
    /\ ~config.remove_background
    /\ Len(results) = 2
    /\ \A i \in 1..Len(results) : results[i].ok
    /\ Len(written) = 3
    /\ \A w \in 1..Len(written) : written[w].frame # 0 /\ ~written[w].stripped

----------------------------------------------------------------------------
(* Output paths *)

\* C21: within one run the files written for different images of the same
\* directory have different paths: no file written for one image is overwritten
\* by the processing of another, also when the two share a stem and differ in
\* their extension.
C21_OutputPathsDisjoint ==
    \A v, w \in 1..Len(written) :
        /\ written[v].folder = written[w].folder
        /\ written[v].index # written[w].index
        => ~(written[v].dir = written[w].dir /\ written[v].name = written[w].name)

----------------------------------------------------------------------------
(* A frame that cannot be saved *)

\* the image of result r was counted by "total_processed += 1"
Counted(r) == r.ok /\ (r.frames # <<>> \/ WritesOf(r) # {})

\* the step in which the save of frame frame_index + 1 fails: the error is
\* returned for the current image, the loops go on with the next image, nothing
\* is written or counted, and no frame after the failed one has been cropped
FailedSaveStops ==
    /\ \/ pc = "stripped"
       \/ pc = "cropped" /\ ~config.remove_background
    /\ pc' # pc
    /\ written' = written
    => /\ Len(results') = Len(results) + 1
       /\ SubSeq(results', 1, Len(results)) = results
       /\ LET r == results'[Len(results')]
          IN  /\ ~r.ok /\ r.error = "save"
              /\ r.folder = folder_index /\ r.index = index
              /\ Len(SavedFor(r)) = frame_index
       /\ Len(cropped) = frame_index + 1
       /\ cropped' = <<>>
       /\ pc' \in {"image", "folder"}
       /\ total_processed' = total_processed

\* what is left of an image one of whose frames could not be saved: the frames
\* before the failed one, in order, and no copy of the image; the image is not
\* among those counted
FailedSaveLeaves ==
    /\ \A i \in 1..Len(results) :
          LET r == results[i]
              saved == SavedFor(r)
          IN  r.error = "save" =>
                 /\ ~r.ok
                 /\ Len(saved) < Len(r.frames)
                 /\ \A j \in 1..Len(saved) :
                       saved[j].frame = j /\ saved[j].rect = r.frames[j]
                 /\ ~Counted(r)
    /\ total_processed = IF variant = "relaxed"
                         THEN Cardinality({i \in 1..Len(results) : Counted(results[i])})
                         ELSE 0

\* C22: when saving the k-th frame of an image fails, the processing of that
\* image stops at once: frames 1..k-1 remain written, no frame after the k-th
\* is cropped or saved, no pass-through copy is written for the image, and the
\* image is not counted as processed.
C22_SaveFailureStopsImage == [](FailedSaveLeaves) /\ [][FailedSaveStops]_vars

\* the second frame of a sheet could not be saved: its first frame is written,
\* and the run went on with the next image and ended
C22_Witness ==
    /\ pc = "done"
    /\ outcome = "ok"
    /\ Len(results) = 2
    /\ results[1].error = "save"
    /\ Len(results[1].frames) = 2
    /\ Len(SavedFor(results[1])) = 1
    /\ results[2].ok
    /\ Len(SavedFor(results[2])) = 1

====
